---- MODULE Spec2Model ----
(***************************************************************************)
(* Model of library/nxos_ping.py: main() builds a "ping" command, sends it *)
(* once to the device, and parses the text that comes back into packet     *)
(* counters, a loss percentage and round-trip statistics.                  *)
(*                                                                         *)
(* A Python string is a sequence of one-character strings, a Python list   *)
(* is a sequence, and list positions are 0-based as in the source.         *)
(***************************************************************************)
EXTENDS Integers, Sequences, FiniteSets

VARIABLES pc, params, ping_command, calls, ping, splitted_ping,
          reference_point, summary, rtt, outcome

vars == <<pc, params, ping_command, calls, ping, splitted_ping,
          reference_point, summary, rtt, outcome>>

(***************************************************************************)
(* Bound of the model: the longest device output, in lines.                *)
(***************************************************************************)
MaxLines == 3

(***************************************************************************)
(* Python values.                                                          *)
(***************************************************************************)
\* None: a value no string is equal to.
None == <<"None">>

\* The local variable "index" of get_statistics_summary_line before any
\* assignment.
Unbound == -1

\* bool(arg) for the values a module parameter takes: None and '' are false.
Truthy(arg) == arg /= None /\ arg /= <<>>

\* The characters str.strip() and str.lstrip() remove.
Whitespace == {" ", "\t", "\n", "\r", "\f"}

Min(S) == CHOOSE i \in S : \A j \in S : i <= j

\* The positions (1-based) at which sep occurs in s.
Occurrences(s, sep) ==
    {i \in 1..(Len(s) - Len(sep) + 1) : SubSeq(s, i, i + Len(sep) - 1) = sep}

\* sep in s
str_contains(s, sep) == Occurrences(s, sep) /= {}

\* s.split(sep): the pieces between the successive occurrences of sep,
\* found left to right; one piece when sep does not occur.
RECURSIVE str_split(_, _)
str_split(s, sep) ==
    IF Occurrences(s, sep) = {}
    THEN <<s>>
    ELSE LET i == Min(Occurrences(s, sep))
         IN  <<SubSeq(s, 1, i - 1)>>
             \o str_split(SubSeq(s, i + Len(sep), Len(s)), sep)

\* s.lstrip()
RECURSIVE str_lstrip(_)
str_lstrip(s) ==
    IF s /= <<>> /\ Head(s) \in Whitespace THEN str_lstrip(Tail(s)) ELSE s

\* s.rstrip()
RECURSIVE str_rstrip(_)
str_rstrip(s) ==
    IF s /= <<>> /\ s[Len(s)] \in Whitespace
    THEN str_rstrip(SubSeq(s, 1, Len(s) - 1))
    ELSE s

\* s.strip()
str_strip(s) == str_rstrip(str_lstrip(s))

\* s[:-3]
str_drop3(s) == IF Len(s) <= 3 THEN <<>> ELSE SubSeq(s, 1, Len(s) - 3)

\* sep.join(xs)
RECURSIVE str_join(_, _)
str_join(xs, sep) ==
    IF xs = <<>> THEN <<>>
    ELSE IF Len(xs) = 1 THEN xs[1]
    ELSE xs[1] \o sep \o str_join(Tail(xs), sep)

\* xs[i] is defined for 0 <= i < len(xs); IndexError otherwise (the source
\* never uses a negative position).
InRange(xs, i) == 0 <= i /\ i < Len(xs)
item(xs, i) == xs[i + 1]

\* xs.index(x): the position of the first element equal to x.
list_index(xs, x) == Min({i \in 0..(Len(xs) - 1) : xs[i + 1] = x})

\* What a function call produces: a value, or an exception that nothing in
\* the source catches.
Return(v) == [raised |-> "None", value |-> v]
Raise(e) == [raised |-> e, value |-> None]

(***************************************************************************)
(* Literals of the source.                                                 *)
(***************************************************************************)
NL == <<"\n">>
COMMA == <<",">>
EQUALS == <<"=">>
SLASH == <<"/">>
DASHES == <<"-", "-", "-">>
PACKETS == <<"p", "a", "c", "k", "e", "t", "s">>
PACKET == <<"p", "a", "c", "k", "e", "t">>
TOTAL_LOSS == <<"1", "0", "0", ".", "0", "0", "%">>
PING == <<"p", "i", "n", "g", " ">>
ERROR_SENDING == <<"E", "r", "r", "o", "r", " ", "s", "e", "n", "d", "i", "n", "g", " ">>
\* count=dict(default=4), as '{1}'.format(arg) writes it.
DEFAULT_COUNT == <<"4">>
OPTION_NAMES == {"vrf", "count", "source"}

\* The option name as the text that '{0}'.format(command) writes.
OptionText(name) ==
    CASE name = "vrf" -> <<"v", "r", "f">>
      [] name = "count" -> <<"c", "o", "u", "n", "t">>
      [] name = "source" -> <<"s", "o", "u", "r", "c", "e">>

(***************************************************************************)
(* The parsing functions.                                                  *)
(***************************************************************************)
\* get_summary without the strip() of the received count.
get_summary_unstripped(results_list, reference) ==
    IF ~InRange(results_list, reference + 1) THEN Raise("IndexError")
    ELSE LET summary_string == item(results_list, reference + 1)
             summary_list == str_split(summary_string, COMMA)
         IN  IF ~InRange(summary_list, 2) THEN Raise("IndexError")
             ELSE Return(
                 [packets_tx |->
                      str_strip(item(str_split(item(summary_list, 0), PACKETS), 0)),
                  packets_rx |-> item(str_split(item(summary_list, 1), PACKETS), 0),
                  packet_loss |->
                      str_strip(item(str_split(item(summary_list, 2), PACKET), 0))])

\* get_summary: the three tokens of the line after the marker.
get_summary(results_list, reference) ==
    IF ~InRange(results_list, reference + 1) THEN Raise("IndexError")
    ELSE LET summary_string == item(results_list, reference + 1)
             summary_list == str_split(summary_string, COMMA)
         IN  IF ~InRange(summary_list, 2) THEN Raise("IndexError")
             ELSE Return(
                 [packets_tx |->
                      str_strip(item(str_split(item(summary_list, 0), PACKETS), 0)),
                  packets_rx |->
                      str_strip(item(str_split(item(summary_list, 1), PACKETS), 0)),
                  packet_loss |->
                      str_strip(item(str_split(item(summary_list, 2), PACKET), 0))])

\* The branch of get_rtt that reads the line at "location", with the unit
\* suffix cut off max or left on it.
read_rtt(results_list, location, cut_unit) ==
    IF ~InRange(results_list, location) THEN Raise("IndexError")
    ELSE LET rtt_string == item(results_list, location)
             parts == str_split(rtt_string, EQUALS)
         IN  IF ~InRange(parts, 1) THEN Raise("IndexError")
             ELSE LET base == item(parts, 1)
                      rtt_list == str_split(base, SLASH)
                  IN  IF ~InRange(rtt_list, 2) THEN Raise("IndexError")
                      ELSE Return([min |-> str_lstrip(item(rtt_list, 0)),
                                   avg |-> item(rtt_list, 1),
                                   max |-> IF cut_unit
                                           THEN str_drop3(item(rtt_list, 2))
                                           ELSE item(rtt_list, 2)])

\* get_rtt that leaves the unit suffix on max.
get_rtt_keeps_unit(results_list, packet_loss, location) ==
    IF packet_loss /= TOTAL_LOSS
    THEN read_rtt(results_list, location, FALSE)
    ELSE Return([min |-> None, avg |-> None, max |-> None])

\* get_rtt that reads the line at "location" before it looks at the loss.
get_rtt_reads_first(results_list, packet_loss, location) ==
    LET got == read_rtt(results_list, location, TRUE)
    IN  IF got.raised /= "None" THEN got
        ELSE IF packet_loss /= TOTAL_LOSS THEN got
        ELSE Return([min |-> None, avg |-> None, max |-> None])

\* get_rtt that takes every loss beginning with "100" for a total loss.
get_rtt_any_total(results_list, packet_loss, location) ==
    IF Len(packet_loss) >= 3 /\ SubSeq(packet_loss, 1, 3) = <<"1", "0", "0">>
    THEN Return([min |-> None, avg |-> None, max |-> None])
    ELSE read_rtt(results_list, location, TRUE)

\* get_rtt: min, avg and max of the line at "location", or three None when
\* the loss is the text "100.00%".
get_rtt(results_list, packet_loss, location) ==
    IF packet_loss /= TOTAL_LOSS
    THEN IF ~InRange(results_list, location) THEN Raise("IndexError")
         ELSE LET rtt_string == item(results_list, location)
                  parts == str_split(rtt_string, EQUALS)
              IN  IF ~InRange(parts, 1) THEN Raise("IndexError")
                  ELSE LET base == item(parts, 1)
                           rtt_list == str_split(base, SLASH)
                       IN  IF ~InRange(rtt_list, 2) THEN Raise("IndexError")
                           ELSE Return([min |-> str_lstrip(item(rtt_list, 0)),
                                        avg |-> item(rtt_list, 1),
                                        max |-> str_drop3(item(rtt_list, 2))])
    ELSE Return([min |-> None, avg |-> None, max |-> None])

\* The loop of get_statistics_summary_line from position k on: every line
\* that contains '---' assigns index = response_as_list.index(each).
RECURSIVE scan_lines(_, _, _)
scan_lines(response_as_list, k, index) ==
    IF k >= Len(response_as_list) THEN index
    ELSE LET each == item(response_as_list, k)
         IN  scan_lines(response_as_list, k + 1,
                        IF str_contains(each, DASHES)
                        THEN list_index(response_as_list, each)
                        ELSE index)

\* get_statistics_summary_line: "return index" of a name never assigned
\* raises UnboundLocalError.
get_statistics_summary_line(response_as_list) ==
    LET index == scan_lines(response_as_list, 0, Unbound)
    IN  IF index = Unbound THEN Raise("UnboundLocalError") ELSE Return(index)

(***************************************************************************)
(* The command line.                                                       *)
(***************************************************************************)
\* OPTIONS of main().
OPTIONS(p) == [name \in OPTION_NAMES |->
                  CASE name = "vrf" -> p.vrf
                    [] name = "count" -> p.count
                    [] name = "source" -> p.source]

\* The loop body without the test of arg.
append_option_always(command_so_far, name, arg) ==
    command_so_far \o <<" ">> \o OptionText(name) \o <<" ">> \o arg

\* One pass of the loop body: ' {0} {1}'.format(command, arg) when arg is
\* true.
append_option(command_so_far, name, arg) ==
    IF Truthy(arg)
    THEN command_so_far \o <<" ">> \o OptionText(name) \o <<" ">> \o arg
    ELSE command_so_far

\* The loop over OPTIONS.iteritems() in the order "order".
RECURSIVE build_command(_, _, _)
build_command(command_so_far, order, options) ==
    IF order = <<>> THEN command_so_far
    ELSE build_command(append_option(command_so_far, Head(order),
                                     options[Head(order)]),
                       Tail(order), options)

\* The orders in which OPTIONS.iteritems() can yield the three keys.  Python 2
\* leaves the order of a dict to the implementation and to the hashes of the
\* keys: CPython 2.7 yields count, source, vrf (the order of the sample
\* command in RETURN), an insertion-ordered dict yields vrf, count, source,
\* and hash randomisation (python -R) can yield any order.
IterationOrders ==
    {o \in [1..3 -> OPTION_NAMES] : {o[i] : i \in 1..3} = OPTION_NAMES}

(***************************************************************************)
(* Inputs: the module parameters and the text the device answers with.     *)
(***************************************************************************)
DEST == <<"8", ".", "8", ".", "8", ".", "8">>
OTHER_DEST == <<"1", "0", ".", "0", ".", "0", ".", "1">>
MANAGEMENT == <<"m", "a", "n", "a", "g", "e", "m", "e", "n", "t">>
SOURCE_ADDRESS == <<"1", ".", "1", ".", "1", ".", "1">>
INVALID_COMMAND == <<"I", "n", "v", "a", "l", "i", "d", " ", "c", "o", "m", "m", "a", "n", "d">>

PACKETS_TRANSMITTED == <<" ", "p", "a", "c", "k", "e", "t", "s", " ", "t", "r", "a", "n", "s", "m", "i", "t", "t", "e", "d">>
PACKETS_RECEIVED == <<" ", "p", "a", "c", "k", "e", "t", "s", " ", "r", "e", "c", "e", "i", "v", "e", "d">>
PACKET_LOSS == <<" ", "p", "a", "c", "k", "e", "t", " ", "l", "o", "s", "s">>
ROUND_TRIP == <<"r", "o", "u", "n", "d", "-", "t", "r", "i", "p", " ", "m", "i", "n", "/", "a", "v", "g", "/", "m", "a", "x">>
MS == <<" ", "m", "s">>

TxTokens == {<<"8">>}
RxTokens == {<<"8">>, <<"0">>}
LossTokens == {<<"0", ".", "0", "0", "%">>, TOTAL_LOSS, <<"1", "0", "0", "%">>}
MinTokens == {<<"5", ".", "9", "7", "8">>}
AvgTokens == {<<"6", ".", "2", "6", "4">>}
MaxTokens == {<<"6", ".", "5", "6", "4">>}

\* "T packets transmitted, R packets received, L packet loss"
SummaryLine(t, r, l) ==
    t \o PACKETS_TRANSMITTED \o <<",", " ">> \o r \o PACKETS_RECEIVED
      \o <<",", " ">> \o l \o PACKET_LOSS

\* "round-trip min/avg/max = a/b/c ms"
RttLine(a, b, c) ==
    ROUND_TRIP \o <<" ", "=", " ">> \o a \o SLASH \o b \o SLASH \o c \o MS

PingLine == <<"P", "I", "N", "G", " ", "8", ".", "8", ".", "8", ".", "8", ":", " ", "5", "6", " ", "d", "a", "t", "a", " ", "b", "y", "t", "e", "s">>
MarkerLine == <<"-", "-", "-", " ", "8", ".", "8", ".", "8", ".", "8", " ", "p", "i", "n", "g", " ", "s", "t", "a", "t", "i", "s", "t", "i", "c", "s", " ", "-", "-", "-">>
DashLine == <<"-", "-", "-", "-", "-", "-">>
RttA == RttLine(<<"5", ".", "9", "7", "8">>, <<"6", ".", "2", "6", "4">>, <<"6", ".", "5", "6", "4">>)

\* Lines that are not of the vendor's format.
SummaryTwoFields ==
    <<"8">> \o PACKETS_TRANSMITTED \o <<",", " ">> \o <<"8">> \o PACKETS_RECEIVED
SummaryEmptyTokens ==
    <<"8">> \o PACKETS_TRANSMITTED \o <<",", " ">> \o Tail(PACKETS_RECEIVED)
      \o <<",", " ">> \o Tail(PACKET_LOSS)
RttNoEquals == ROUND_TRIP \o <<" ">> \o <<"5", ".", "9", "7", "8", "/", "6", ".", "2", "6", "4", "/", "6", ".", "5", "6", "4", " ", "m", "s">>
RttFourTokens == ROUND_TRIP \o <<" ", "=", " ">> \o <<"5", ".", "9", "7", "8", "/", "6", ".", "2", "6", "4", "/", "6", ".", "5", "6", "4", "/", "0", ".", "2", " ", "m", "s">>
RttTwoEquals == RttA \o <<" ", "=", " ", "x">>
RttTwoTokens == ROUND_TRIP \o <<" ", "=", " ">> \o <<"5", ".", "9", "7", "8", "/", "6", ".", "2", "6", "4", " ", "m", "s">>

SummaryLines == {SummaryLine(t, r, l) : t \in TxTokens, r \in RxTokens, l \in LossTokens}

Lines ==
    {PingLine, <<>>, MarkerLine, DashLine} \cup SummaryLines
      \cup {SummaryTwoFields, SummaryEmptyTokens}
      \cup {RttA, RttNoEquals, RttFourTokens, RttTwoEquals, RttTwoTokens}

\* The scenarios of the vendor's format: all packets answered, none answered.
ScenarioA ==
    <<PingLine, <<>>, MarkerLine, SummaryLine(<<"8">>, <<"8">>, <<"0", ".", "0", "0", "%">>), RttA>>
ScenarioB ==
    <<PingLine, <<>>, MarkerLine, SummaryLine(<<"8">>, <<"0">>, TOTAL_LOSS)>>

\* The texts the device may answer with: the scenarios, and every text of at
\* most MaxLines lines.
Bodies ==
    {str_join(ls, NL) :
        ls \in {ScenarioA, ScenarioB} \cup UNION {[1..n -> Lines] : n \in 0..MaxLines}}

\* The answers of the runs that vary the parameters: the two scenarios, a
\* text without a marker and a text that ends at its marker.
ScenarioBodies ==
    {str_join(ls, NL) : ls \in {ScenarioA, ScenarioB, <<PingLine>>, <<MarkerLine>>}}

NoSummary == [packets_tx |-> None, packets_rx |-> None, packet_loss |-> None]
NoRtt == [min |-> None, avg |-> None, max |-> None]
NoResults ==
    [command |-> None, action |-> None, dest |-> None, count |-> None,
     packets_tx |-> None, packets_rx |-> None, packet_loss |-> None, rtt |-> NoRtt]
NoOutcome ==
    [kind |-> "none", exception |-> "None", msg |-> None, error |-> None,
     results |-> NoResults]

(***************************************************************************)
(* The run of main().                                                      *)
(***************************************************************************)
Start(p) ==
    /\ pc = "main"
    /\ params = p
    /\ ping_command = None
    /\ calls = 0
    /\ ping = None
    /\ splitted_ping = <<>>
    /\ reference_point = Unbound
    /\ summary = NoSummary
    /\ rtt = NoRtt
    /\ outcome = NoOutcome

\* dest is required, count defaults to 4, vrf and source default to None.
DefaultParams == [dest |-> DEST, count |-> DEFAULT_COUNT, vrf |-> None, source |-> None]

ParamSets ==
    [dest : {DEST, OTHER_DEST}, count : {DEFAULT_COUNT, <<"8">>, <<>>},
     vrf : {None, MANAGEMENT}, source : {None, SOURCE_ADDRESS}]

Init == Start(DefaultParams)

MainInit == \E p \in ParamSets : Start(p)

\* An exception nothing catches ends the run.
Crash(e) ==
    /\ pc' = "done"
    /\ outcome' = [outcome EXCEPT !.kind = "exception", !.exception = e]

\* main(): the command line.
BuildCommand ==
    /\ pc = "main"
    /\ \E order \in IterationOrders :
          ping_command' = build_command(PING \o params.dest, order, OPTIONS(params))
    /\ pc' = "get_ping_results"
    /\ UNCHANGED <<params, calls, ping, splitted_ping, reference_point, summary,
                   rtt, outcome>>

\* parsed_data_from_device: device.show answers, and the text of the body
\* element of the answer is returned.
DeviceAnswers(bodies) ==
    /\ pc = "get_ping_results"
    /\ calls' = calls + 1
    /\ \E body \in bodies : ping' = body
    /\ pc' = "split"
    /\ UNCHANGED <<params, ping_command, splitted_ping, reference_point, summary,
                   rtt, outcome>>

\* parsed_data_from_device where the failure is reported and the run goes on
\* to parse an empty body.
DeviceFailsAndGoesOn ==
    /\ pc = "get_ping_results"
    /\ calls' = calls + 1
    /\ outcome' = [outcome EXCEPT !.kind = "fail_json",
                                  !.msg = ERROR_SENDING \o ping_command,
                                  !.error = INVALID_COMMAND]
    /\ ping' = <<>>
    /\ pc' = "split"
    /\ UNCHANGED <<params, ping_command, splitted_ping, reference_point,
                   summary, rtt>>

\* parsed_data_from_device: device.show raises CLIError, and fail_json ends
\* the run with the message and the error.
DeviceFails ==
    /\ pc = "get_ping_results"
    /\ calls' = calls + 1
    /\ outcome' = [outcome EXCEPT !.kind = "fail_json",
                                  !.msg = ERROR_SENDING \o ping_command,
                                  !.error = INVALID_COMMAND]
    /\ pc' = "done"
    /\ UNCHANGED <<params, ping_command, ping, splitted_ping, reference_point,
                   summary, rtt>>

\* get_ping_results: split the body into lines and find the marker.
LocateStatistics ==
    /\ pc = "split"
    /\ splitted_ping' = str_split(ping, NL)
    /\ LET found == get_statistics_summary_line(splitted_ping')
       IN  IF found.raised /= "None"
           THEN Crash(found.raised) /\ UNCHANGED reference_point
           ELSE /\ reference_point' = found.value
                /\ pc' = "get_summary"
                /\ UNCHANGED outcome
    /\ UNCHANGED <<params, ping_command, calls, ping, summary, rtt>>

\* get_ping_results: the summary.
GetSummary ==
    /\ pc = "get_summary"
    /\ LET got == get_summary(splitted_ping, reference_point)
       IN  IF got.raised /= "None"
           THEN Crash(got.raised) /\ UNCHANGED summary
           ELSE /\ summary' = got.value
                /\ pc' = "get_rtt"
                /\ UNCHANGED outcome
    /\ UNCHANGED <<params, ping_command, calls, ping, splitted_ping,
                   reference_point, rtt>>

\* get_ping_results: the round-trip times.
GetRtt ==
    /\ pc = "get_rtt"
    /\ LET got == get_rtt(splitted_ping, summary.packet_loss, reference_point + 2)
       IN  IF got.raised /= "None"
           THEN Crash(got.raised) /\ UNCHANGED rtt
           ELSE /\ rtt' = got.value
                /\ pc' = "exit_json"
                /\ UNCHANGED outcome
    /\ UNCHANGED <<params, ping_command, calls, ping, splitted_ping,
                   reference_point, summary>>

\* main(): the results handed to exit_json.
ExitJson ==
    /\ pc = "exit_json"
    /\ outcome' = [outcome EXCEPT
          !.kind = "exit_json",
          !.results = [command |-> ping_command,
                       action |-> item(splitted_ping, 0),
                       dest |-> params.dest,
                       count |-> params.count,
                       packets_tx |-> summary.packets_tx,
                       packets_rx |-> summary.packets_rx,
                       packet_loss |-> summary.packet_loss,
                       rtt |-> rtt]]
    /\ pc' = "done"
    /\ UNCHANGED <<params, ping_command, calls, ping, splitted_ping,
                   reference_point, summary, rtt>>

Parse == LocateStatistics \/ GetSummary \/ GetRtt \/ ExitJson

Next == BuildCommand \/ DeviceAnswers(Bodies) \/ DeviceFails \/ Parse

MainNext == BuildCommand \/ DeviceAnswers(ScenarioBodies) \/ DeviceFails \/ Parse

\* One invocation with the default parameters, over every device answer.
Spec == Init /\ [][Next]_vars

\* One invocation over every combination of parameters, with the answers of
\* the scenarios.
MainSpec == MainInit /\ [][MainNext]_vars

(***************************************************************************)
(* The claims.                                                             *)
(***************************************************************************)
ZERO_LOSS == <<"0", ".", "0", "0", "%">>
SHORT_TOTAL_LOSS == <<"1", "0", "0", "%">>

\* The positions of the lines that contain "---".
MarkerPositions(ls) == {i \in 0..(Len(ls) - 1) : str_contains(item(ls, i), DASHES)}

Max(S) == CHOOSE i \in S : \A j \in S : j <= i

Finished == pc = "done"
Returned == pc = "done" /\ outcome.kind = "exit_json"

\* The marker has been looked for and found.
Located == reference_point /= Unbound

\* The line at position i of the device's answer, once it is split.
HasLine(i) == InRange(splitted_ping, i)
LineAt(i) == item(splitted_ping, i)

\* C1: when exactly one line, at position i, contains "---", line i+1 is
\* "T packets transmitted, R packets received, L packet loss" with L other
\* than "100.00%" and line i+2 is "round-trip min/avg/max = a/b/c ms", the
\* run returns packets_tx = T, packets_rx = R, packet_loss = L and
\* rtt = {min: a, avg: b, max: c}, the bare tokens.
C1_WellFormedOutputIsParsed ==
    \A i \in 0..(Len(splitted_ping) - 1) :
      \A t \in TxTokens, r \in RxTokens, l \in LossTokens \ {TOTAL_LOSS},
         a \in MinTokens, b \in AvgTokens, c \in MaxTokens :
        ( /\ Finished
          /\ MarkerPositions(splitted_ping) = {i}
          /\ HasLine(i + 2)
          /\ LineAt(i + 1) = SummaryLine(t, r, l)
          /\ LineAt(i + 2) = RttLine(a, b, c) )
        => /\ outcome.kind = "exit_json"
           /\ outcome.results.packets_tx = t
           /\ outcome.results.packets_rx = r
           /\ outcome.results.packet_loss = l
           /\ outcome.results.rtt = [min |-> a, avg |-> b, max |-> c]

\* Scenario A has been parsed into its six tokens.
C1_Witness ==
    /\ Returned
    /\ splitted_ping = ScenarioA
    /\ outcome.results.packets_tx = <<"8">>
    /\ outcome.results.packets_rx = <<"8">>
    /\ outcome.results.packet_loss = ZERO_LOSS
    /\ outcome.results.rtt = [min |-> <<"5", ".", "9", "7", "8">>,
                              avg |-> <<"6", ".", "2", "6", "4">>,
                              max |-> <<"6", ".", "5", "6", "4">>]

\* C2: once the loss token parsed from the summary is "100.00%", the run
\* returns a result whose rtt has min, avg and max all None, whatever the
\* line two after the marker holds and also when there is no such line.
C2_TotalLossGivesNullRtt ==
    (Finished /\ summary.packet_loss = TOTAL_LOSS)
    => /\ outcome.kind = "exit_json"
       /\ outcome.results.packet_loss = TOTAL_LOSS
       /\ outcome.results.rtt = NoRtt

\* A total loss whose summary line is the last line of the answer.
C2_Witness ==
    /\ Returned
    /\ summary.packet_loss = TOTAL_LOSS
    /\ ~HasLine(reference_point + 2)
    /\ outcome.results.rtt = NoRtt

\* C3: in a returned result min, avg and max are all None or all strings,
\* and they are all None exactly when packet_loss is the text "100.00%".
C3_RttAllOrNothing ==
    Returned =>
      LET r == outcome.results.rtt
      IN  /\ \/ r.min = None /\ r.avg = None /\ r.max = None
             \/ r.min /= None /\ r.avg /= None /\ r.max /= None
          /\ (r = NoRtt) <=> (outcome.results.packet_loss = TOTAL_LOSS)

\* A loss spelled "100%" returned with all three times present.
C3_Witness ==
    /\ Returned
    /\ outcome.results.packet_loss = SHORT_TOTAL_LOSS
    /\ outcome.results.rtt.min /= None
    /\ outcome.results.rtt.avg /= None
    /\ outcome.results.rtt.max /= None

\* C4: when some line contains "---", the position found is that of the
\* last such line, also when that line is equal to an earlier one.
C4_LastMarkerWins ==
    (splitted_ping /= <<>> /\ MarkerPositions(splitted_ping) /= {})
    => reference_point = Max(MarkerPositions(splitted_ping))

\* C5: when no line contains "---", the run ends in the dedicated
\* MarkerNotFoundError and not in an unrelated runtime error.
C5_MissingMarkerIsReported ==
    (Finished /\ splitted_ping /= <<>> /\ MarkerPositions(splitted_ping) = {})
    => /\ outcome.exception = "MarkerNotFoundError"
       /\ outcome.exception /= "UnboundLocalError"

\* The tokens the summary line at position i yields when it has three fields.
FieldsAt(i) == str_split(LineAt(i), COMMA)

\* C6: a line after the marker with fewer than three fields ends the run in
\* MalformedSummaryError, and no returned summary holds an empty token.
C6_MalformedSummaryIsReported ==
    /\ (Finished /\ Located /\ HasLine(reference_point + 1)
          /\ Len(FieldsAt(reference_point + 1)) < 3)
       => outcome.exception = "MalformedSummaryError"
    /\ (pc \in {"get_rtt", "exit_json"} \/ Returned)
       => /\ summary.packets_tx /= <<>>
          /\ summary.packets_rx /= <<>>
          /\ summary.packet_loss /= <<>>

\* The text after the first "=" of the line at position i.
AfterFirstEquals(i) ==
    LET at == Min(Occurrences(LineAt(i), EQUALS))
    IN  SubSeq(LineAt(i), at + 1, Len(LineAt(i)))

\* C7: with a loss other than "100.00%", an RTT line without "=" or whose
\* text after the first "=" does not hold exactly three "/"-separated
\* tokens ends the run in MalformedRttError; four tokens are not cut to
\* three.
C7_MalformedRttIsReported ==
    (Finished /\ Located /\ summary /= NoSummary
       /\ summary.packet_loss /= TOTAL_LOSS /\ HasLine(reference_point + 2))
    => LET i == reference_point + 2
       IN  /\ ~str_contains(LineAt(i), EQUALS)
              => outcome.exception = "MalformedRttError"
           /\ (str_contains(LineAt(i), EQUALS)
                 /\ Len(str_split(AfterFirstEquals(i), SLASH)) /= 3)
              => outcome.exception = "MalformedRttError"
           /\ (str_contains(LineAt(i), EQUALS)
                 /\ Len(str_split(AfterFirstEquals(i), SLASH)) = 3)
              => LET tokens == str_split(AfterFirstEquals(i), SLASH)
                 IN  /\ outcome.kind = "exit_json"
                     /\ outcome.results.rtt
                          = [min |-> str_lstrip(item(tokens, 0)),
                             avg |-> item(tokens, 1),
                             max |-> str_drop3(item(tokens, 2))]

\* What a reported failure and a returned result each leave behind.
FailureReported ==
    /\ outcome.msg = ERROR_SENDING \o ping_command
    /\ outcome.error /= None
    /\ outcome.results = NoResults
    /\ ping = None
    /\ splitted_ping = <<>>
    /\ reference_point = Unbound
    /\ summary = NoSummary
    /\ rtt = NoRtt

ResultReturned ==
    /\ outcome.msg = None
    /\ outcome.error = None
    /\ outcome.results.command = ping_command
    /\ outcome.results.packet_loss /= None

C9_OptionsInDeclaredOrder ==
    ping_command /= None
    => ping_command = build_command(PING \o params.dest,
                                    <<"vrf", "count", "source">>, OPTIONS(params))

\* The text " <name> <value>" of an option.
OptionClause(name, arg) == <<" ">> \o OptionText(name) \o <<" ">> \o arg

\* The length an option adds to the command.
ClauseLength(name, arg) == IF Truthy(arg) THEN Len(OptionClause(name, arg)) ELSE 0

\* C9 amended: the command starts with "ping <dest>", holds " <name> <value>"
\* exactly once for each of vrf, count and source that has a value, holds no
\* " <name>" for an option without one, and holds nothing else; the order of
\* the options is the iteration order of a dict and is not fixed.
C9_EachOptionOnce ==
    ping_command /= None
    => LET start == PING \o params.dest
           options == OPTIONS(params)
       IN  /\ Len(ping_command) >= Len(start)
           /\ SubSeq(ping_command, 1, Len(start)) = start
           /\ \A name \in OPTION_NAMES :
                IF Truthy(options[name])
                THEN Cardinality(Occurrences(ping_command,
                         OptionClause(name, options[name]))) = 1
                ELSE ~str_contains(ping_command, <<" ">> \o OptionText(name))
           /\ Len(ping_command)
                = Len(start) + ClauseLength("vrf", options["vrf"])
                    + ClauseLength("count", options["count"])
                    + ClauseLength("source", options["source"])

\* The command of the documented sample: count before vrf.
C9_Witness ==
    /\ Returned
    /\ outcome.results.command
         = PING \o DEST \o OptionClause("count", <<"8">>)
             \o OptionClause("vrf", MANAGEMENT)

====
